---- MODULE Spec2Model ----
(***************************************************************************)
(* Model of the data-integrity scanner (src/main.py): load_data, the three *)
(* detectors check_missing_values / check_duplicates / check_outliers, the *)
(* report assembler generate_report, and the sequencing done by main.      *)
(*                                                                         *)
(* A cell is an optional value: <<>> is an absent entry (NaN / None) and   *)
(* <<v>> a present value v.  A column is a record [name, numeric, cells];  *)
(* a Table (DataFrame) is a sequence of columns of equal length.           *)
(* Row indices and positions reported by the program are 0-based.          *)
(***************************************************************************)
EXTENDS Integers, Sequences, FiniteSets

\* ------------------------------------------------------------------------
\* Bounds of the generic table universe
MaxCells == 4
MaxVal == 2

\* z_thresh=3 is the default parameter of check_outliers
DefaultZThresh == 3
\* ddof of scipy.stats.zscore as called by check_outliers (default: 0)
ZScoreDdof == 0

\* thresholds a caller of check_outliers may pass
Thresholds == {-1, 0, 1, 2, DefaultZThresh}

\* ------------------------------------------------------------------------
\* Optional values
NoVal == <<>>
Some(x) == <<x>>
IsSet(o) == Len(o) = 1
Get(o) == o[1]

\* ------------------------------------------------------------------------
\* Tables
NumCells == {NoVal} \cup {Some(v) : v \in 0..MaxVal}
CatCells == {NoVal, Some("x")}

Column(name, numeric, cells) ==
    [name |-> name, numeric |-> numeric, cells |-> cells]

ColumnsNamed(name, r) ==
    {Column(name, TRUE, c) : c \in [1..r -> NumCells]}
        \cup {Column(name, FALSE, c) : c \in [1..r -> CatCells]}

NameOrders == {<<>>, <<"A">>, <<"A", "B">>, <<"B", "A">>}

TablesOver(names, r) ==
    IF Len(names) = 0 THEN {<<>>}
    ELSE IF Len(names) = 1 THEN {<<c>> : c \in ColumnsNamed(names[1], r)}
    ELSE {<<c, d>> : c \in ColumnsNamed(names[1], r),
                     d \in ColumnsNamed(names[2], r)}

\* every table of at most MaxCells cells over the names
GenericTables ==
    UNION {TablesOver(nr[1], nr[2]) :
             nr \in {x \in NameOrders \X (0..MaxCells) : Len(x[1]) * x[2] <= MaxCells}}

Present(vals) == [i \in 1..Len(vals) |-> Some(vals[i])]

\* A=[1,2,2,NaN], B=[10,20,20,10]
EndToEndTable ==
    << Column("A", TRUE, <<Some(1), Some(2), Some(2), NoVal>>),
       Column("B", TRUE, Present(<<10, 20, 20, 10>>)) >>

\* one value far from the rest
FarValueTable ==
    << Column("V", TRUE, Present(<<1, 2, 1, 2, 1, 50>>)) >>

ExampleTables == {EndToEndTable, FarValueTable}

Tables == GenericTables \cup ExampleTables

NRows(t) == IF Len(t) = 0 THEN 0 ELSE Len(t[1].cells)

Row(t, i) == [c \in 1..Len(t) |-> t[c].cells[i]]

\* ------------------------------------------------------------------------
\* Arithmetic helpers
RECURSIVE SumSeq(_)
SumSeq(s) == IF Len(s) = 0 THEN 0 ELSE s[1] + SumSeq(Tail(s))

\* ------------------------------------------------------------------------
\* check_missing_values: data.isnull().sum()
IsNull(cell) == Len(cell) = 0

\* variant: counts the present cells (notnull)
IsNullCountNot(cells) ==
    SumSeq([i \in 1..Len(cells) |-> IF IsNull(cells[i]) THEN 0 ELSE 1])

IsNullCount(cells) ==
    SumSeq([i \in 1..Len(cells) |-> IF IsNull(cells[i]) THEN 1 ELSE 0])

check_missing_values(t) ==
    [c \in 1..Len(t) |-> <<t[c].name, IsNullCount(t[c].cells)>>]

\* ------------------------------------------------------------------------
\* check_duplicates: data.duplicated().sum()
\* duplicated() (keep='first') marks a row when an earlier row equals it;
\* absent entries compare equal to each other there.
\* variant: keep=False marks every row that has an equal row
DuplicatedKeepNone(t, i) ==
    \E j \in 1..NRows(t) : j # i /\ Row(t, j) = Row(t, i)

Duplicated(t, i) ==
    \E j \in 1..(i - 1) : Row(t, j) = Row(t, i)

check_duplicates(t) ==
    SumSeq([i \in 1..NRows(t) |-> IF Duplicated(t, i) THEN 1 ELSE 0])

\* ------------------------------------------------------------------------
\* check_outliers
\* data[col].dropna(): the present values, in order
Dropna(cells) ==
    LET kept == SelectSeq(cells, LAMBDA c : ~IsNull(c))
    IN  [i \in 1..Len(kept) |-> Get(kept[i])]

\* scipy.stats.zscore(a, ddof): (a - mean) / std.  Scores are kept exact as
\* the fraction num/den of z^2, with n*(a[i] - mean) = n*a[i] - sum(a) and
\* std^2 = sum((a - mean)^2) / (n - ddof).  den = 0 is the NaN produced by
\* the division by a zero standard deviation.
ZScoreWith(a, ddof) ==
    LET n == Len(a)
        S == SumSeq(a)
        d == [i \in 1..n |-> n * a[i] - S]
        SSD == SumSeq([i \in 1..n |-> d[i] * d[i]])
    IN  [i \in 1..n |-> [num |-> d[i] * d[i] * (n - ddof), den |-> SSD]]

\* variant: ddof=1
ZScoreSample(a) == ZScoreWith(a, 1)

ZScore(a) == ZScoreWith(a, ZScoreDdof)

\* np.abs(z) > z_thresh; a comparison with NaN is False
\* variant: ~(np.abs(z) <= z_thresh), which holds for NaN
AbsGreaterNegated(z, thresh) ==
    ~(z.den # 0 /\ thresh >= 0 /\ z.num <= thresh * thresh * z.den)

AbsGreater(z, thresh) ==
    /\ z.den # 0
    /\ \/ thresh < 0
       \/ z.num > thresh * thresh * z.den

\* np.where(mask)[0]: the 0-based positions where the mask holds, ascending
\* variant: 1-based positions
WhereOneBased(mask) ==
    SelectSeq([i \in 1..Len(mask) |-> i], LAMBDA k : mask[k])

Where(mask) ==
    LET pos == [i \in 1..Len(mask) |-> i - 1]
    IN  SelectSeq(pos, LAMBDA k : mask[k + 1])

OutlierIndices(cells, z_thresh) ==
    LET z_scores == ZScore(Dropna(cells))
    IN  Where([i \in 1..Len(z_scores) |-> AbsGreater(z_scores[i], z_thresh)])

\* data.select_dtypes(include=[np.number]).columns
NumericColumns(t) == SelectSeq(t, LAMBDA col : col.numeric)

\* if len(outlier_indices) > 0
\* variant: the guard is missing
KeepAlways(outlier_indices) == TRUE

Keep(outlier_indices) == Len(outlier_indices) > 0

\* the dict is an insertion-ordered sequence of <<column, indices>> items
check_outliers(t, z_thresh) ==
    LET cols == NumericColumns(t)
        items == [c \in 1..Len(cols) |->
                    <<cols[c].name, OutlierIndices(cols[c].cells, z_thresh)>>]
    IN  SelectSeq(items, LAMBDA it : Keep(it[2]))

\* ------------------------------------------------------------------------
\* generate_report: the text as a sequence of lines
Line(tag, col, n, idx) == [tag |-> tag, col |-> col, n |-> n, idx |-> idx]

\* Series.to_string(): one "<column>    <count>" line per entry; an empty
\* Series renders as the single line "Series([], )"
to_string(series) ==
    IF Len(series) = 0 THEN <<Line("Series([], )", "", 0, <<>>)>>
    ELSE [k \in 1..Len(series) |-> Line("count", series[k][1], series[k][2], <<>>)]

OutlierLines(outl) ==
    [k \in 1..Len(outl) |->
        Line("outliers at indices", outl[k][1], Len(outl[k][2]), outl[k][2])]

\* variant: the Outliers section precedes the Duplicate Rows section
generate_report_swapped(mv, dups, outl) ==
    <<Line("Data Integrity Report", "", 0, <<>>),
      Line("=====================", "", 0, <<>>),
      Line("Missing Values:", "", 0, <<>>)>>
    \o to_string(mv)
    \o <<Line("", "", 0, <<>>),
         Line("Outliers:", "", 0, <<>>)>>
    \o OutlierLines(outl)
    \o <<Line("", "", 0, <<>>),
         Line("Duplicate Rows:", "", dups, <<>>)>>

generate_report(mv, dups, outl) ==
    <<Line("Data Integrity Report", "", 0, <<>>),
      Line("=====================", "", 0, <<>>),
      Line("Missing Values:", "", 0, <<>>)>>
    \o to_string(mv)
    \o <<Line("", "", 0, <<>>),
         Line("Duplicate Rows:", "", dups, <<>>),
         Line("", "", 0, <<>>),
         Line("Outliers:", "", 0, <<>>)>>
    \o OutlierLines(outl)

\* ------------------------------------------------------------------------
\* State of one run of main
VARIABLES pc,      \* position in main
    data,             \* the loaded DataFrame (optional)
    missing_values,   \* result of check_missing_values (optional)
    duplicate_count,  \* result of check_duplicates (optional)
    z_thresh,         \* parameter given to check_outliers (optional)
    outliers,         \* result of check_outliers (optional)
    report,           \* result of generate_report (optional)
    exc,              \* exception in flight / caught by main
    stdout,           \* what main printed
    log               \* records written to the log file

vars == <<pc, data, missing_values, duplicate_count, z_thresh, outliers,
          report, exc, stdout, log>>

Init ==
    /\ pc = "load_data"
    /\ data = NoVal
    /\ missing_values = NoVal
    /\ duplicate_count = NoVal
    /\ z_thresh = NoVal
    /\ outliers = NoVal
    /\ report = NoVal
    /\ exc = "none"
    /\ stdout = <<>>
    /\ log = <<>>

\* load_data: pd.read_csv succeeds
LoadDataOk ==
    /\ pc = "load_data"
    /\ \E t \in Tables : data' = Some(t)
    /\ log' = Append(log, "INFO Data loaded successfully")
    /\ pc' = "check_missing_values"
    /\ UNCHANGED <<missing_values, duplicate_count, z_thresh, outliers,
                   report, exc, stdout>>

\* variant: the error is logged and an empty DataFrame is returned
LoadDataSwallow ==
    /\ pc = "load_data"
    /\ log' = Append(log, "ERROR Error loading data")
    /\ data' = Some(<<>>)
    /\ pc' = "check_missing_values"
    /\ UNCHANGED <<missing_values, duplicate_count, z_thresh, outliers,
                   report, exc, stdout>>

\* load_data: pd.read_csv raises; the error is logged and re-raised to main
LoadDataRaise ==
    /\ pc = "load_data"
    /\ log' = Append(log, "ERROR Error loading data")
    /\ exc' = "LoadError"
    /\ pc' = "except"
    /\ UNCHANGED <<data, missing_values, duplicate_count, z_thresh, outliers,
                   report, stdout>>

CheckMissingValues ==
    /\ pc = "check_missing_values"
    /\ missing_values' = Some(check_missing_values(Get(data)))
    /\ log' = Append(log, "INFO Missing values checked")
    /\ pc' = "check_duplicates"
    /\ UNCHANGED <<data, duplicate_count, z_thresh, outliers, report, exc,
                   stdout>>

CheckDuplicates ==
    /\ pc = "check_duplicates"
    /\ duplicate_count' = Some(check_duplicates(Get(data)))
    /\ log' = Append(log, "INFO Duplicate rows checked")
    /\ pc' = "check_outliers"
    /\ UNCHANGED <<data, missing_values, z_thresh, outliers, report, exc,
                   stdout>>

CheckOutliersWith(thresh) ==
    /\ pc = "check_outliers"
    /\ z_thresh' = Some(thresh)
    /\ outliers' = Some(check_outliers(Get(data), thresh))
    /\ log' = Append(log, "INFO Outliers checked")
    /\ pc' = "generate_report"
    /\ UNCHANGED <<data, missing_values, duplicate_count, report, exc, stdout>>

\* main: check_outliers(data)
CheckOutliers == CheckOutliersWith(DefaultZThresh)

\* a caller passing its own z_thresh
CheckOutliersParam == \E thresh \in Thresholds : CheckOutliersWith(thresh)

GenerateReport ==
    /\ pc = "generate_report"
    /\ report' = Some(generate_report(Get(missing_values),
                                      Get(duplicate_count), Get(outliers)))
    /\ log' = Append(log, "INFO Report generated")
    /\ pc' = "print"
    /\ UNCHANGED <<data, missing_values, duplicate_count, z_thresh, outliers,
                   exc, stdout>>

PrintReport ==
    /\ pc = "print"
    /\ stdout' = Append(stdout, Get(report))
    /\ pc' = "done"
    /\ UNCHANGED <<data, missing_values, duplicate_count, z_thresh, outliers,
                   report, exc, log>>

ErrorMessage == <<Line("An error occurred. Please check the log file for details.",
                       "", 0, <<>>)>>

\* main: except Exception
MainExcept ==
    /\ pc = "except"
    /\ log' = Append(log, "ERROR An error occurred during execution")
    /\ stdout' = Append(stdout, ErrorMessage)
    /\ pc' = "done"
    /\ UNCHANGED <<data, missing_values, duplicate_count, z_thresh, outliers,
                   report, exc>>

Next ==
    \/ LoadDataOk
    \/ LoadDataRaise
    \/ CheckMissingValues
    \/ CheckDuplicates
    \/ CheckOutliers
    \/ GenerateReport
    \/ PrintReport
    \/ MainExcept

Spec == Init /\ [][Next]_vars

\* the same sequence with the threshold chosen by the caller
NextParam ==
    \/ LoadDataOk
    \/ LoadDataRaise
    \/ CheckMissingValues
    \/ CheckDuplicates
    \/ CheckOutliersParam
    \/ GenerateReport
    \/ PrintReport
    \/ MainExcept

SpecParam == Init /\ [][NextParam]_vars

\* ------------------------------------------------------------------------
\* Vocabulary of the properties, stated over the Table itself
OutliersRan == IsSet(outliers)

ColumnOf(t, name) == t[CHOOSE c \in 1..Len(t) : t[c].name = name]

ColumnNames(t) == {t[c].name : c \in 1..Len(t)}

Keys(outl) == {outl[k][1] : k \in 1..Len(outl)}

\* the indices reported for a column; none when the column is not a key
Reported(outl, name) ==
    IF name \in Keys(outl)
    THEN LET idx == outl[CHOOSE k \in 1..Len(outl) : outl[k][1] = name][2]
         IN  {idx[m] : m \in 1..Len(idx)}
    ELSE {}

RECURSIVE Reduced(_)
Reduced(cells) ==
    IF Len(cells) = 0 THEN <<>>
    ELSE IF Head(cells) = NoVal THEN Reduced(Tail(cells))
    ELSE <<Head(cells)[1]>> \o Reduced(Tail(cells))

SumSq(a) == SumSeq([i \in 1..Len(a) |-> a[i] * a[i]])

\* n^2 times the population variance of a: n*sum(a^2) - sum(a)^2
Spread(a) == Len(a) * SumSq(a) - SumSeq(a) * SumSeq(a)

Dev(a, i) == Len(a) * a[i] - SumSeq(a)

\* |a[i] - mean| > thresh * s with s the population standard deviation
ExceedsPopulation(a, i, thresh) ==
    IF thresh < 0 THEN TRUE
    ELSE Dev(a, i) * Dev(a, i) > thresh * thresh * Spread(a)

\* |a[i] - mean| > thresh * s with s the sample standard deviation
ExceedsSample(a, i, thresh) ==
    IF thresh < 0 THEN TRUE
    ELSE Dev(a, i) * Dev(a, i) * (Len(a) - 1)
            > thresh * thresh * Len(a) * Spread(a)

\* ------------------------------------------------------------------------
\* C1: for a positive z_thresh, every index reported for a column is the
\* 0-based row index in the Table of a present value whose |z| exceeds
\* z_thresh, also when absent entries precede it.
C1_OriginalRowIndices ==
    (OutliersRan /\ Get(z_thresh) > 0) =>
        \A k \in 1..Len(Get(outliers)) :
            LET cells == ColumnOf(Get(data), Get(outliers)[k][1]).cells
                idx == Get(outliers)[k][2]
            IN  \A m \in 1..Len(idx) :
                    /\ idx[m] \in 0..(Len(cells) - 1)
                    /\ cells[idx[m] + 1] # NoVal
                    /\ \E i \in 1..Len(Reduced(cells)) :
                          /\ Reduced(cells)[i] = cells[idx[m] + 1][1]
                          /\ ExceedsPopulation(Reduced(cells), i, Get(z_thresh))

\* C2: check_outliers called with z_thresh <= 0 fails with InvalidParameter
\* and returns no OutlierReport.
C2_NonPositiveThreshRejected ==
    (IsSet(z_thresh) /\ Get(z_thresh) <= 0) =>
        (~IsSet(outliers) /\ exc = "InvalidParameter")

\* C3 (as stated): for the column [1,2,1,2,1,50] and z_thresh=3 the report
\* holds row index 5 for that column and no other index.
C3_FarValueAtThree ==
    (OutliersRan /\ Get(data) = FarValueTable /\ Get(z_thresh) = 3) =>
        Get(outliers) = << <<"V", <<5>>>> >>

\* C3 (amended): for the column [1,2,1,2,1,50], z_thresh=3 reports no index
\* at all (the column is not a key); z_thresh=2 reports row index 5 and no
\* other index.
C3_FarValue ==
    (OutliersRan /\ Get(data) = FarValueTable) =>
        /\ Get(z_thresh) = 3 => Get(outliers) = <<>>
        /\ Get(z_thresh) = 2 => Get(outliers) = << <<"V", <<5>>>> >>

C3_Witness ==
    OutliersRan /\ Get(data) = FarValueTable /\ Get(z_thresh) = 3

\* C10 (as stated): for a positive z_thresh and a numeric column with at
\* least 2 present values and non-zero spread, the flagged positions are
\* exactly those with |v - mean| > z_thresh * s, s the sample standard
\* deviation (divisor n-1).
C10_SampleDeviation ==
    (OutliersRan /\ Get(z_thresh) > 0) =>
        \A c \in 1..Len(Get(data)) :
            LET col == Get(data)[c]
                a == Reduced(col.cells)
            IN  (col.numeric /\ Len(a) >= 2 /\ Spread(a) > 0) =>
                    Reported(Get(outliers), col.name)
                        = {i - 1 : i \in {j \in 1..Len(a) :
                                            ExceedsSample(a, j, Get(z_thresh))}}

\* C10 (amended): for a numeric column with at least 2 present values and
\* non-zero spread, the flagged positions are exactly the positions i of the
\* reduced sequence with |v_i - mean| > z_thresh * s, s the population
\* standard deviation (divisor n).
C10_PopulationDeviation ==
    OutliersRan =>
        \A c \in 1..Len(Get(data)) :
            LET col == Get(data)[c]
                a == Reduced(col.cells)
            IN  (col.numeric /\ Len(a) >= 2 /\ Spread(a) > 0) =>
                    Reported(Get(outliers), col.name)
                        = {i - 1 : i \in {j \in 1..Len(a) :
                                            ExceedsPopulation(a, j, Get(z_thresh))}}

\* a column where the two deviations decide differently
C10_Witness ==
    /\ OutliersRan
    /\ Get(z_thresh) > 0
    /\ \E c \in 1..Len(Get(data)) :
          LET col == Get(data)[c]
              a == Reduced(col.cells)
          IN  /\ col.numeric /\ Len(a) >= 2 /\ Spread(a) > 0
              /\ \E i \in 1..Len(a) :
                    /\ ExceedsPopulation(a, i, Get(z_thresh))
                    /\ ~ExceedsSample(a, i, Get(z_thresh))
                    /\ (i - 1) \in Reported(Get(outliers), col.name)

\* ------------------------------------------------------------------------
\* C4: when load_data raises, the error reaches main (it is not swallowed by
\* load_data), no detector runs in that scan and no report is generated or
\* printed.
Logged(msg) == \E i \in 1..Len(log) : log[i] = msg

LoadFailed == Logged("ERROR Error loading data")

C4_LoadFailureIsFatal ==
    LoadFailed =>
        /\ exc = "LoadError"
        /\ pc \in {"except", "done"}
        /\ data = NoVal
        /\ missing_values = NoVal
        /\ duplicate_count = NoVal
        /\ outliers = NoVal
        /\ report = NoVal
        /\ ~Logged("INFO Missing values checked")
        /\ ~Logged("INFO Duplicate rows checked")
        /\ ~Logged("INFO Outliers checked")
        /\ ~Logged("INFO Report generated")
        /\ \A k \in 1..Len(stdout) : stdout[k] = ErrorMessage

C4_Witness == LoadFailed /\ pc = "done" /\ Len(stdout) = 1

\* C5: check_duplicates returns the number of rows minus the number of
\* distinct row value-tuples; hence 0 for at most one row, and never more
\* than the row count.
C5_DuplicateCount ==
    IsSet(duplicate_count) =>
        LET t == Get(data)
            n == NRows(t)
            count == Get(duplicate_count)
        IN  /\ count = n - Cardinality({Row(t, i) : i \in 1..n})
            /\ n <= 1 => count = 0
            /\ count \in 0..n

C5_Witness ==
    /\ IsSet(duplicate_count)
    /\ Get(duplicate_count) >= 1
    /\ Len(Get(data)) = 2
    /\ Get(duplicate_count) < NRows(Get(data)) - 1

\* C6: check_missing_values returns one entry per column, in column order,
\* each the number of absent cells of that column, which lies in
\* 0..row_count; also for an empty Table.
C6_MissingValueReport ==
    IsSet(missing_values) =>
        LET t == Get(data)
            mv == Get(missing_values)
        IN  /\ Len(mv) = Len(t)
            /\ \A c \in 1..Len(t) :
                  /\ mv[c][1] = t[c].name
                  /\ mv[c][2] = Cardinality({i \in 1..NRows(t) :
                                                t[c].cells[i] = NoVal})
                  /\ mv[c][2] \in 0..NRows(t)

C6_Witness ==
    /\ IsSet(missing_values)
    /\ Len(Get(data)) = 2
    /\ Get(missing_values)[1][2] = 0
    /\ Get(missing_values)[2][2] = 1
    /\ NRows(Get(data)) = 2

\* C7: every key of the OutlierReport is a numeric column of the Table and
\* carries a non-empty index list; a numeric column without outliers and a
\* non-numeric column are not keys.
C7_KeysHaveOutliers ==
    OutliersRan =>
        LET t == Get(data)
            outl == Get(outliers)
        IN  /\ \A k \in 1..Len(outl) :
                  /\ outl[k][1] \in ColumnNames(t)
                  /\ ColumnOf(t, outl[k][1]).numeric
                  /\ Len(outl[k][2]) > 0
            /\ \A k, l \in 1..Len(outl) : outl[k][1] = outl[l][1] => k = l
            /\ \A c \in 1..Len(t) :
                  LET a == Reduced(t[c].cells)
                  IN  (t[c].numeric /\ \A i \in 1..Len(a) :
                          ~ExceedsPopulation(a, i, Get(z_thresh)))
                      => t[c].name \notin Keys(outl)

\* one numeric column is a key and another has no outlier
C7_Witness ==
    /\ OutliersRan
    /\ Len(Get(data)) = 2
    /\ Get(data)[1].numeric /\ Get(data)[2].numeric
    /\ NRows(Get(data)) = 2
    /\ Len(Get(outliers)) = 1
    /\ Get(outliers)[1][1] = Get(data)[2].name

\* C8: for a positive z_thresh, a numeric column whose reduced sequence has
\* fewer than 2 values, or whose values are all equal, gets no outliers, and
\* check_outliers does not fail.
C8_DegenerateColumns ==
    (IsSet(z_thresh) /\ Get(z_thresh) > 0) =>
        /\ OutliersRan
        /\ exc = "none"
        /\ \A c \in 1..Len(Get(data)) :
              LET col == Get(data)[c]
                  a == Reduced(col.cells)
              IN  (col.numeric /\ (Len(a) < 2 \/ \A i, j \in 1..Len(a) : a[i] = a[j]))
                      => Reported(Get(outliers), col.name) = {}

C8_Witness ==
    /\ OutliersRan
    /\ Get(z_thresh) > 0
    /\ \E c \in 1..Len(Get(data)) :
          LET col == Get(data)[c]
              a == Reduced(col.cells)
          IN  col.numeric /\ Len(a) = 3 /\ \A i, j \in 1..Len(a) : a[i] = a[j]

\* C9: the report's sections come in the order title, "Missing Values:",
\* "Duplicate Rows: <count>", "Outliers:"; after the "Outliers:" header comes
\* exactly one line per key of the OutlierReport, in the mapping's order, with
\* the column name, the number of indices and the index list unchanged;
\* nothing follows the header when the OutlierReport is empty.
C9_ReportLayout ==
    IsSet(report) =>
        LET r == Get(report)
            mv == Get(missing_values)
            outl == Get(outliers)
            m == IF Len(mv) = 0 THEN 1 ELSE Len(mv)
        IN  /\ Len(r) = m + 7 + Len(outl)
            /\ r[1].tag = "Data Integrity Report"
            /\ r[2].tag = "====================="
            /\ r[3].tag = "Missing Values:"
            /\ \A k \in 1..Len(mv) :
                  r[3 + k].col = mv[k][1] /\ r[3 + k].n = mv[k][2]
            /\ r[m + 4].tag = ""
            /\ r[m + 5].tag = "Duplicate Rows:"
            /\ r[m + 5].n = Get(duplicate_count)
            /\ r[m + 6].tag = ""
            /\ r[m + 7].tag = "Outliers:"
            /\ \A k \in 1..Len(outl) :
                  /\ r[m + 7 + k].tag = "outliers at indices"
                  /\ r[m + 7 + k].col = outl[k][1]
                  /\ r[m + 7 + k].n = Len(outl[k][2])
                  /\ r[m + 7 + k].idx = outl[k][2]

C9_Witness ==
    /\ IsSet(report)
    /\ Len(Get(outliers)) = 2
    /\ Len(Get(report)) = 11

====
